---- MODULE Spec2Model ----
(***************************************************************************)
(* Model of the completion session of core/src/completion.rs:              *)
(* CompletionData (status, request_id, input, index, items,                *)
(* filtered_items), the UpdateCompletion / CancelCompletion handlers of    *)
(* CompletionContainer::event, the asynchronous language-server responses  *)
(* that are in flight, and the scroll offset and painted rows of           *)
(* CompletionState / CompletionWidget::paint_raw.                          *)
(***************************************************************************)
EXTENDS Integers, Sequences, FiniteSets, TLC

\* ------------------------------------------------------------------ bounds
\* Number of requests (calls of start) one run may issue.
MaxRequests == 2
\* Longest entry list of the ranking specification.
MaxItems == 3
\* Most rows the list of the scrolling specification holds.
MaxRows == 4
\* Largest scroll offset the scrolling specification starts from.
MaxOffset == 8

\* ------------------------------------------------------------ label strings
\* A string is a sequence of one-character strings; "" is << >>.
foo == <<"f", "o", "o">>
bar == <<"b", "a", "r">>
fooBar == <<"f", "o", "o", "B", "a", "r">>
fob == <<"f", "o", "b">>

\* The inputs (typed prefixes) a run may use.
Queries == { << >>, <<"f", "o">>, <<"b">> }

\* The entry lists a language-server response may carry.
Payloads == { << >>, <<bar>>, <<foo, bar, fooBar>> }

\* The entry lists of the ranking specification: every list of at most
\* MaxItems of these labels.
RankLabels == {foo, fob, bar, fooBar}
RankPayloads == UNION { [1..n -> RankLabels] : n \in 0..MaxItems }

\* The buffers and anchor offsets a completion may be started at.
BufferIds == {1}
Offsets == {2}

\* The row heights and viewport heights (in pixels) of the scrolling
\* specification.
LineHeights == {2, 3}
Heights == {3, 5, 6}

\* --------------------------------------------------------------- the state
VARIABLES
    request_id,      \* CompletionData.request_id
    status,          \* CompletionData.status
    offset,          \* CompletionData.offset (anchor)
    buffer_id,       \* CompletionData.buffer_id
    input,           \* CompletionData.input
    index,           \* CompletionData.index
    items,           \* CompletionData.items
    filtered_items,  \* CompletionData.filtered_items
    msgs,            \* language-server responses in flight (never consumed:
                     \* a response may be delivered late and more than once)
    applied,         \* per request id, how many responses were applied
    last,            \* the event handled last
    fatal,           \* the process panicked
    state_items,     \* CompletionState: number of current_items()
    state_index,     \* CompletionState.index
    scroll_offset,   \* CompletionState.scroll_offset
    line_height,     \* LapceTheme::EDITOR_LINE_HEIGHT
    height,          \* height of the painted region
    painted          \* the last paint: the region's top and bottom, the rows drawn

data == <<request_id, status, offset, buffer_id, input, index, items,
          filtered_items>>
\* CompletionState and what its widget paints with.
view == <<state_items, state_index, scroll_offset, line_height, height,
          painted>>
vars == <<request_id, status, offset, buffer_id, input, index, items,
          filtered_items, msgs, applied, last, fatal, state_items,
          state_index, scroll_offset, line_height, height, painted>>

\* The session as one value, the `self` of the methods below.
Self ==
    [request_id |-> request_id, status |-> status, offset |-> offset,
     buffer_id |-> buffer_id, input |-> input, index |-> index,
     items |-> items, filtered_items |-> filtered_items]

\* The session after a method returned c.
Becomes(c) ==
    /\ request_id' = c.request_id
    /\ status' = c.status
    /\ offset' = c.offset
    /\ buffer_id' = c.buffer_id
    /\ input' = c.input
    /\ index' = c.index
    /\ items' = c.items
    /\ filtered_items' = c.filtered_items

\* ----------------------------------------------------- the fuzzy matcher
\* Lower case of a character (the matcher ignores case).
Lower(c) ==
    CASE c = "B" -> "b"
      [] c = "F" -> "f"
      [] OTHER -> c

IsUpper(c) == c \in {"B", "F"}

\* The leftmost positions (1-based, increasing) at which the characters of
\* pattern from position k on occur in choice from position from on; << >>
\* when they do not all occur.
RECURSIVE MatchFrom(_, _, _, _)
MatchFrom(choice, pattern, from, k) ==
    IF k > Len(pattern) THEN << >>
    ELSE LET hits == { p \in from..Len(choice) :
                           Lower(choice[p]) = Lower(pattern[k]) }
         IN  IF hits = {} THEN << >>
             ELSE LET p == CHOOSE h \in hits : \A g \in hits : h <= g
                      rest == MatchFrom(choice, pattern, p + 1, k + 1)
                  IN  IF k < Len(pattern) /\ rest = << >> THEN << >>
                      ELSE <<p>> \o rest

\* The score of one matched position: a base value, a bonus at the start of
\* the candidate or after a case change, a bonus for continuing a run.
PositionScore(choice, ps, j) ==
    LET p == ps[j]
    IN  4
        + (IF p = 1 THEN 2
           ELSE IF IsUpper(choice[p]) /\ ~IsUpper(choice[p - 1]) THEN 2
           ELSE 0)
        + (IF j > 1 /\ ps[j - 1] = p - 1 THEN 3 ELSE 0)

RECURSIVE SumScores(_, _, _)
SumScores(choice, ps, j) ==
    IF j > Len(ps) THEN 0
    ELSE PositionScore(choice, ps, j) + SumScores(choice, ps, j + 1)

NoMatch == [matched |-> FALSE, score |-> 0, indices |-> << >>]

\* matcher.fuzzy_indices(choice, pattern): None, or Some((score, indices))
\* with the 0-based positions of the matched characters.
fuzzy_indices(choice, pattern) ==
    LET ps == MatchFrom(choice, pattern, 1, 1)
    IN  IF Len(ps) # Len(pattern) THEN NoMatch
        ELSE [matched |-> TRUE,
              score |-> SumScores(choice, ps, 1) - Len(choice),
              indices |-> [j \in 1..Len(ps) |-> ps[j] - 1]]

RECURSIVE InsertByScore_TiesFirst(_, _)
\* The sort comparator that puts an entry before the entries of equal score.
InsertByScore_TiesFirst(sorted, x) ==
    IF sorted = << >> THEN <<x>>
    ELSE IF Head(sorted).score > x.score
         THEN <<Head(sorted)>> \o InsertByScore_TiesFirst(Tail(sorted), x)
         ELSE <<x>> \o sorted

\* ------------------------------------------------------------ sort_by
\* b.score.partial_cmp(&a.score): slice::sort_by is a stable sort, so x goes
\* behind every element that does not have a smaller score.
RECURSIVE InsertByScore(_, _)
InsertByScore(sorted, x) ==
    IF sorted = << >> THEN <<x>>
    ELSE IF Head(sorted).score >= x.score
         THEN <<Head(sorted)>> \o InsertByScore(Tail(sorted), x)
         ELSE <<x>> \o sorted

RECURSIVE SortByScore(_)
SortByScore(s) ==
    IF s = << >> THEN << >>
    ELSE InsertByScore(SortByScore(SubSeq(s, 1, Len(s) - 1)), s[Len(s)])

\* ------------------------------------------------------ CompletionData
\* CompletionData::new
new ==
    [request_id |-> 0, status |-> "Inactive", offset |-> 0, buffer_id |-> 0,
     input |-> << >>, index |-> 0, items |-> << >>, filtered_items |-> << >>]

\* len() that always counts the filtered list.
len_AlwaysFiltered(self) == Len(self.filtered_items)

\* CompletionData::len
len(self) ==
    IF self.input = << >> THEN Len(self.items) ELSE Len(self.filtered_items)

\* The list the popup shows and current() reads.
ActiveItems(self) ==
    IF self.input = << >> THEN self.items ELSE self.filtered_items

\* Movement::update_index(index, len, count, wrapping) for Down and Up.
update_index(movement, idx, n, count, wrapping) ==
    IF n = 0 THEN idx
    ELSE IF movement = "Down"
         THEN (IF idx + count > n - 1
               THEN (IF wrapping THEN 0 ELSE n - 1)
               ELSE idx + count)
         ELSE (IF idx - count < 0
               THEN (IF wrapping THEN n - 1 ELSE 0)
               ELSE idx - count)

\* next() that stops at the last entry instead of wrapping.
next_NoWrap(self) ==
    [self EXCEPT !.index = update_index("Down", self.index, len(self), 1, FALSE)]

\* CompletionData::next
next(self) ==
    [self EXCEPT !.index = update_index("Down", self.index, len(self), 1, TRUE)]

\* CompletionData::previous
previous(self) ==
    [self EXCEPT !.index = update_index("Up", self.index, len(self), 1, TRUE)]

RECURSIVE FilterMap_KeepsUnmatched(_, _)
\* The filter that keeps the entries the matcher rejected.
FilterMap_KeepsUnmatched(its, pattern) ==
    IF its = << >> THEN << >>
    ELSE LET i == Head(its)
             m == fuzzy_indices(i.item, pattern)
         IN  <<[i EXCEPT !.score = m.score, !.indices = m.indices]>>
             \o FilterMap_KeepsUnmatched(Tail(its), pattern)

\* The matched and scored copies of self.items, in the order of self.items.
RECURSIVE FilterMap(_, _)
FilterMap(its, pattern) ==
    IF its = << >> THEN << >>
    ELSE LET i == Head(its)
             m == fuzzy_indices(i.item, pattern)
         IN  (IF m.matched
              THEN <<[i EXCEPT !.score = m.score, !.indices = m.indices]>>
              ELSE << >>) \o FilterMap(Tail(its), pattern)

\* CompletionData::filter_items
filter_items(self) ==
    IF self.input = << >> THEN self
    ELSE [self EXCEPT
             !.filtered_items = SortByScore(FilterMap(self.items, self.input))]

\* cancel() that also resets the request counter.
cancel_ResetsRequestId(self) ==
    IF self.status = "Inactive" THEN self
    ELSE [self EXCEPT !.status = "Inactive", !.input = << >>, !.index = 0,
                      !.request_id = 0]

\* CompletionData::cancel
cancel(self) ==
    IF self.status = "Inactive" THEN self
    ELSE [self EXCEPT !.status = "Inactive", !.input = << >>, !.index = 0]

\* update_input() without the status check.
update_input_AnyStatus(self, in) ==
    filter_items([self EXCEPT !.input = in, !.index = 0])

\* CompletionData::update_input
update_input(self, in) ==
    IF self.status # "Done" THEN self
    ELSE filter_items([self EXCEPT !.input = in, !.index = 0])

\* done() that keeps the input the session already had.
done_KeepsInput(self, in, completion_items) ==
    filter_items(
        [self EXCEPT
            !.status = "Done",
            !.items = [k \in 1..Len(completion_items) |->
                          [item |-> completion_items[k], score |-> 0,
                           index |-> 0, indices |-> << >>]]])

\* CompletionData::done
done(self, in, completion_items) ==
    filter_items(
        [self EXCEPT
            !.status = "Done",
            !.input = in,
            !.items = [k \in 1..Len(completion_items) |->
                          [item |-> completion_items[k], score |-> 0,
                           index |-> 0, indices |-> << >>]]])

\* CompletionData::current: the label of the selected entry, or a panic
\* when the index is outside the list it reads.
current(self) ==
    IF self.input = << >>
    THEN (IF self.index + 1 \in DOMAIN self.items
          THEN [panic |-> FALSE, label |-> self.items[self.index + 1].item]
          ELSE [panic |-> TRUE, label |-> << >>])
    ELSE (IF self.index + 1 \in DOMAIN self.filtered_items
          THEN [panic |-> FALSE,
                label |-> self.filtered_items[self.index + 1].item]
          ELSE [panic |-> TRUE, label |-> << >>])

\* start(buffer_id, anchor_offset): a new request is issued.
start(self, b, o) ==
    [self EXCEPT
        !.request_id = self.request_id + 1,
        !.buffer_id = b,
        !.offset = o,
        !.input = << >>,
        !.index = 0,
        !.status = "Started"]

\* LapceTabData::completion_done(resp): the response's input and items go
\* to CompletionData::done.
completion_done(self, resp) == done(self, resp.input, resp.items)

\* The UpdateCompletion handler without the request id comparison.
UpdateCompletionEvent_IgnoresRequestId(self, rid, resp) ==
    IF self.status = "Started" THEN done(self, resp.input, resp.items) ELSE self

\* The UpdateCompletion handler without the status comparison.
UpdateCompletionEvent_IgnoresStatus(self, rid, resp) ==
    IF self.request_id = rid THEN done(self, resp.input, resp.items) ELSE self

\* The UpdateCompletion handler that takes any request id up to the current.
UpdateCompletionEvent_AcceptsOlder(self, rid, resp) ==
    IF rid <= self.request_id /\ self.status = "Started"
    THEN done(self, resp.input, resp.items)
    ELSE self

\* CompletionContainer::event, LapceUICommand::UpdateCompletion
UpdateCompletionEvent(self, rid, resp) ==
    IF self.request_id = rid /\ self.status = "Started"
    THEN completion_done(self, resp)
    ELSE self

\* The CancelCompletion handler without the status comparison.
CancelCompletionEvent_IgnoresStatus(self, rid) ==
    IF self.request_id = rid THEN cancel(self) ELSE self

\* CompletionContainer::event, LapceUICommand::CancelCompletion
CancelCompletionEvent(self, rid) ==
    IF self.request_id = rid /\ self.status = "Started"
    THEN cancel(self)
    ELSE self

\* ---------------------------------------------------------------- actions
\* The record of the event handled last: what it was, the request id it
\* carried (0 when it carries none), the status it met, and whether the
\* session changed.
Event(op, rid, c) ==
    [op |-> op, id |-> rid, from |-> status, changed |-> c # Self]

\* An event is handled and leaves the session as c; a process that
\* panicked handles nothing.
Handle(op, rid, c) ==
    /\ ~fatal
    /\ Becomes(c)
    /\ last' = Event(op, rid, c)
    /\ UNCHANGED <<fatal, view>>

\* CompletionState::new, with nothing painted yet.
StateNew ==
    /\ state_items = 0
    /\ state_index = 0
    /\ scroll_offset = 0
    /\ painted = [y0 |-> 0, y1 |-> 0, lines |-> {}]

Init ==
    /\ request_id = new.request_id
    /\ status = new.status
    /\ offset = new.offset
    /\ buffer_id = new.buffer_id
    /\ input = new.input
    /\ index = new.index
    /\ items = new.items
    /\ filtered_items = new.filtered_items
    /\ msgs = {}
    /\ applied = [r \in 1..MaxRequests |-> 0]
    /\ last = [op |-> "new", id |-> 0, from |-> "Inactive", changed |-> FALSE]
    /\ fatal = FALSE
    /\ StateNew
    /\ line_height = CHOOSE l \in LineHeights : \A k \in LineHeights : l <= k
    /\ height = CHOOSE h \in Heights : \A k \in Heights : h >= k

\* The editor starts a completion at (b, o); the language server will answer
\* request request_id + 1 with the input snapshot q and the entries p.
Start(b, o, q, p) ==
    /\ request_id < MaxRequests
    /\ Handle("start", request_id + 1, start(Self, b, o))
    /\ msgs' = msgs \cup {[request_id |-> request_id + 1, input |-> q, items |-> p]}
    /\ UNCHANGED applied

\* A response in flight is delivered (any one, any number of times).
UpdateCompletion(m) ==
    /\ Handle("UpdateCompletion", m.request_id,
              UpdateCompletionEvent(Self, m.request_id, m))
    /\ applied' = IF last'.changed
                  THEN [applied EXCEPT ![m.request_id] = @ + 1]
                  ELSE applied
    /\ UNCHANGED msgs

\* The cancellation of request rid is delivered.
CancelCompletion(rid) ==
    /\ Handle("CancelCompletion", rid, CancelCompletionEvent(Self, rid))
    /\ UNCHANGED <<msgs, applied>>

\* The editor cancels the completion.
Cancel ==
    /\ Handle("cancel", 0, cancel(Self))
    /\ UNCHANGED <<msgs, applied>>

\* The typed prefix changed to q.
UpdateInput(q) ==
    /\ Handle("update_input", 0, update_input(Self, q))
    /\ UNCHANGED <<msgs, applied>>

\* The selection moves down.
NextItem ==
    /\ Handle("next", 0, next(Self))
    /\ UNCHANGED <<msgs, applied>>

\* The selection moves up.
PreviousItem ==
    /\ Handle("previous", 0, previous(Self))
    /\ UNCHANGED <<msgs, applied>>

\* The editor reads the label of the selected entry.
Current ==
    /\ ~fatal
    /\ fatal' = current(Self).panic
    /\ last' = [op |-> "current", id |-> 0, from |-> status, changed |-> FALSE]
    /\ UNCHANGED <<data, msgs, applied, view>>

Next ==
    \/ \E b \in BufferIds, o \in Offsets, q \in Queries, p \in Payloads :
           Start(b, o, q, p)
    \/ \E m \in msgs : UpdateCompletion(m)
    \/ \E rid \in 1..MaxRequests : CancelCompletion(rid)
    \/ Cancel
    \/ \E q \in Queries : UpdateInput(q)
    \/ NextItem
    \/ PreviousItem
    \/ Current

Spec == Init /\ [][Next]_vars

\* ------------------------------------------------- ranking specification
\* The session right after the response to the first request was accepted,
\* for every input snapshot q and entry list p of RankPayloads.
RankSession(q, p) == done(start(new, 1, 2), q, p)

RankInit ==
    \E q \in Queries, p \in RankPayloads :
        /\ request_id = RankSession(q, p).request_id
        /\ status = RankSession(q, p).status
        /\ offset = RankSession(q, p).offset
        /\ buffer_id = RankSession(q, p).buffer_id
        /\ input = RankSession(q, p).input
        /\ index = RankSession(q, p).index
        /\ items = RankSession(q, p).items
        /\ filtered_items = RankSession(q, p).filtered_items
        /\ msgs = {[request_id |-> 1, input |-> q, items |-> p]}
        /\ applied = [r \in 1..MaxRequests |-> IF r = 1 THEN 1 ELSE 0]
        /\ last = [op |-> "UpdateCompletion", id |-> 1, from |-> "Started",
                   changed |-> TRUE]
        /\ fatal = FALSE
        /\ StateNew
        /\ line_height = CHOOSE l \in LineHeights : \A k \in LineHeights : l <= k
        /\ height = CHOOSE h \in Heights : \A k \in Heights : h >= k

RankNext ==
    \/ \E q \in Queries : UpdateInput(q)
    \/ NextItem
    \/ PreviousItem

RankSpec == RankInit /\ [][RankNext]_vars

\* ----------------------------------------------- CompletionWidget::paint_raw
Min(a, b) == IF a <= b THEN a ELSE b

\* x.floor() as usize, for the quotient a / b with b > 0: a negative value
\* becomes 0.
FloorAsUsize(a, b) == IF a < 0 THEN 0 ELSE a \div b

\* x.ceil() as usize, for the quotient a / b with b > 0.
CeilAsUsize(a, b) == IF a <= 0 THEN 0 ELSE (a + b - 1) \div b

\* The scroll offset that takes the bottom edge of the selected row for its
\* top edge.
paint_raw_scroll_offset_TopForBottom(so, idx, lh, h, n) ==
    LET current_line_offset == idx * lh
        items_height == n * lh
    IN  IF so < current_line_offset - h
        THEN Min(current_line_offset - h, items_height - h)
        ELSE IF so > current_line_offset THEN current_line_offset
        ELSE so

\* The scroll offset that never moves back up to the selected row.
paint_raw_scroll_offset_NeverUp(so, idx, lh, h, n) ==
    LET current_line_offset == idx * lh
        items_height == n * lh
    IN  IF so < current_line_offset + lh - h
        THEN Min(current_line_offset + lh - h, items_height - h)
        ELSE so

\* The scroll offset that moves down by one row per frame instead of going
\* to the selected row.
paint_raw_scroll_offset_OneRowAtATime(so, idx, lh, h, n) ==
    LET current_line_offset == idx * lh
        items_height == n * lh
    IN  IF so < current_line_offset + lh - h
        THEN Min(so + lh, items_height - h)
        ELSE IF so > current_line_offset THEN current_line_offset
        ELSE so

\* paint_raw: the scroll offset for the cached offset so, the selected row
\* idx, the row height lh, the region height h and n rows.
paint_raw_scroll_offset(so, idx, lh, h, n) ==
    LET current_line_offset == idx * lh
        items_height == n * lh
    IN  IF so < current_line_offset + lh - h
        THEN Min(current_line_offset + lh - h, items_height - h)
        ELSE IF so > current_line_offset THEN current_line_offset
        ELSE so

\* paint_raw: the rows drawn at the scroll offset so.
paint_raw_lines(so, lh, h, n) ==
    LET start_line == FloorAsUsize(so, lh)
        num_lines == FloorAsUsize(h, lh)
    IN  { line \in start_line..(start_line + num_lines - 1) : line < n }

\* CompletionNew::paint: the rows drawn for the region from y0 to y1.
paint_lines(y0, y1, lh, n) ==
    LET start_line == FloorAsUsize(y0, lh)
        end_line == CeilAsUsize(y1, lh)
    IN  { line \in start_line..(end_line - 1) : line < n }

\* ----------------------------------------------- scrolling specification
\* A session that holds the entries p of an accepted response, and a
\* CompletionState with any number of rows, selected row, cached scroll
\* offset, row height and region height.
ScrollInit ==
    /\ \E p \in Payloads :
           /\ request_id = RankSession(<< >>, p).request_id
           /\ status = RankSession(<< >>, p).status
           /\ offset = RankSession(<< >>, p).offset
           /\ buffer_id = RankSession(<< >>, p).buffer_id
           /\ input = RankSession(<< >>, p).input
           /\ index = RankSession(<< >>, p).index
           /\ items = RankSession(<< >>, p).items
           /\ filtered_items = RankSession(<< >>, p).filtered_items
           /\ msgs = {[request_id |-> 1, input |-> << >>, items |-> p]}
    /\ applied = [r \in 1..MaxRequests |-> IF r = 1 THEN 1 ELSE 0]
    /\ last = [op |-> "UpdateCompletion", id |-> 1, from |-> "Started",
               changed |-> TRUE]
    /\ fatal = FALSE
    /\ state_items \in 0..MaxRows
    /\ state_index \in {i \in 0..MaxRows : i < state_items \/ i = 0}
    /\ scroll_offset \in 0..MaxOffset
    /\ line_height \in LineHeights
    /\ height \in Heights
    /\ painted = [y0 |-> 0, y1 |-> 0, lines |-> {}]

PaintEvent(op) == [op |-> op, id |-> 0, from |-> status, changed |-> FALSE]

\* CompletionWidget::paint_raw
PaintRaw ==
    /\ scroll_offset' = paint_raw_scroll_offset(scroll_offset, state_index,
                                                line_height, height, state_items)
    /\ painted' = [y0 |-> scroll_offset', y1 |-> scroll_offset' + height,
                   lines |-> paint_raw_lines(scroll_offset', line_height,
                                             height, state_items)]
    /\ last' = [PaintEvent("paint_raw") EXCEPT
                    !.changed = (scroll_offset' # scroll_offset)]
    /\ UNCHANGED <<data, msgs, applied, fatal, state_items, state_index,
                   line_height, height>>

\* CompletionNew::paint of the region from y0 to y0 + height.
Paint(y0) ==
    /\ painted' = [y0 |-> y0, y1 |-> y0 + height,
                   lines |-> paint_lines(y0, y0 + height, line_height,
                                         len(Self))]
    /\ last' = PaintEvent("paint")
    /\ UNCHANGED <<data, msgs, applied, fatal, state_items, state_index,
                   scroll_offset, line_height, height>>

\* The editor selects row i of the CompletionState list.
SelectIndex(i) ==
    /\ i < state_items
    /\ state_index' = i
    /\ last' = PaintEvent("select")
    /\ UNCHANGED <<data, msgs, applied, fatal, state_items, scroll_offset,
                   line_height, height, painted>>

\* CompletionState::update with n entries: every entry gets a score other
\* than 0, so all n are current items; index and scroll_offset stay.
StateUpdate(n) ==
    /\ state_items' = n
    /\ last' = PaintEvent("update")
    /\ UNCHANGED <<data, msgs, applied, fatal, state_index, scroll_offset,
                   line_height, height, painted>>

\* CompletionState::update_input
StateUpdateInput ==
    /\ state_index' = 0
    /\ scroll_offset' = 0
    /\ last' = PaintEvent("state_update_input")
    /\ UNCHANGED <<data, msgs, applied, fatal, state_items, line_height,
                   height, painted>>

\* CompletionState::clear
StateClear ==
    /\ state_items' = 0
    /\ state_index' = 0
    /\ scroll_offset' = 0
    /\ last' = PaintEvent("clear")
    /\ UNCHANGED <<data, msgs, applied, fatal, line_height, height, painted>>

ScrollNext ==
    \/ PaintRaw
    \/ \E y0 \in 0..MaxOffset : Paint(y0)
    \/ \E i \in 0..MaxRows : SelectIndex(i)
    \/ \E n \in 0..MaxRows : StateUpdate(n)
    \/ StateUpdateInput
    \/ StateClear

ScrollSpec == ScrollInit /\ [][ScrollNext]_vars

\* ============================================================ properties
\* The labels of a list of scored items, in order.
Labels(its) == [k \in 1..Len(its) |-> its[k].item]

\* The response of the language server to request rid.
ResponseTo(rid) == CHOOSE m \in msgs : m.request_id = rid

\* active_count of the session.
ActiveCount == len(Self)

\* C1: a response delivered while the status is not Started, or with a
\* request id other than the session's current one, changes nothing of the
\* session.
C1_StaleResponseIsNoOp ==
    [][(last'.op = "UpdateCompletion"
          /\ (status # "Started" \/ last'.id # request_id))
       => UNCHANGED data]_vars

\* C1 witness: the response of an older request was delivered to a session
\* that waits for a newer one, after the session had held entries.
C1_Witness ==
    /\ last.op = "UpdateCompletion"
    /\ last.from = "Started"
    /\ last.id < request_id
    /\ status = "Started"
    /\ items # << >>

\* C2: whenever the status is Done, the entries are those of the response to
\* the current request, and no request had more than one response applied.
C2_DoneHoldsCurrentResponse ==
    /\ status = "Done" =>
           \E m \in msgs : m.request_id = request_id /\ Labels(items) = m.items
    /\ \A r \in 1..MaxRequests : applied[r] <= 1

\* C2 witness: two requests were answered with different entries, and the
\* first response has just been delivered again.
C2_Witness ==
    /\ status = "Done"
    /\ request_id = 2
    /\ applied[1] = 1
    /\ applied[2] = 1
    /\ last.op = "UpdateCompletion"
    /\ last.id = 1
    /\ ResponseTo(1).items # ResponseTo(2).items

\* C3: update_input while the status is Inactive or Started changes nothing.
C3_UpdateInputOnlyWhenDone ==
    [][(last'.op = "update_input" /\ status # "Done") => UNCHANGED data]_vars

\* C3 witness: update_input was called while a request was pending and old
\* entries were still held.
C3_Witness ==
    /\ last.op = "update_input"
    /\ last.from = "Started"
    /\ items # << >>

\* C4: the index is below active_count when that is positive, and 0 when
\* active_count is 0.
C4_SelectionInBounds ==
    IF ActiveCount > 0 THEN 0 <= index /\ index < ActiveCount ELSE index = 0

\* C5: from an index inside [0, active_count), next goes from the last index
\* to 0 and otherwise one up, previous goes from 0 to the last index and
\* otherwise one down; with active_count 0 neither moves the index.
C5_WrapsAtTheBoundary ==
    [][/\ (last'.op = "next" /\ index < ActiveCount) =>
              index' = IF index = ActiveCount - 1 THEN 0 ELSE index + 1
       /\ (last'.op = "previous" /\ index < ActiveCount) =>
              index' = IF index = 0 THEN ActiveCount - 1 ELSE index - 1
       /\ (last'.op \in {"next", "previous"} /\ ActiveCount = 0) =>
              index' = index]_vars

\* C5 witness: next wrapped from the last of several entries to the first.
C5_Witness ==
    /\ last.op = "next"
    /\ last.changed
    /\ ActiveCount >= 2
    /\ index = 0

\* C6: cancel from Started or Done leaves the session Inactive with no
\* entries, no filtered entries, an empty input and index 0.
C6_CancelClearsSession ==
    [][(last'.op = "cancel" /\ status \in {"Started", "Done"}) =>
          /\ status' = "Inactive"
          /\ items' = << >>
          /\ filtered_items' = << >>
          /\ input' = << >>
          /\ index' = 0]_vars

\* C7: an accepted response makes the status Done, the input the response's
\* input snapshot, and the entries the response's entries in their order.
C7_AcceptedResponseIsStored ==
    [][(last'.op = "UpdateCompletion"
          /\ status = "Started" /\ last'.id = request_id)
       => /\ status' = "Done"
          /\ input' = ResponseTo(request_id).input
          /\ Len(items') = Len(ResponseTo(request_id).items)
          /\ Labels(items') = ResponseTo(request_id).items]_vars

\* C7 witness: a response with three entries and a non-empty input snapshot
\* was accepted.
C7_Witness ==
    /\ last.op = "UpdateCompletion"
    /\ last.from = "Started"
    /\ last.changed
    /\ Len(items) = 3
    /\ input # << >>

C9_StartedUntilSuperseded ==
    [][status = "Started" =>
          \/ /\ status' = "Started"
             /\ \/ request_id' = request_id
                \/ last'.op = "start" /\ request_id' = request_id + 1
          \/ /\ status' = "Done"
             /\ last'.op = "UpdateCompletion"
             /\ last'.id = request_id
             /\ request_id' = request_id
             /\ Labels(items') = ResponseTo(request_id).items
          \/ /\ status' = "Inactive"
             /\ last'.op \in {"cancel", "CancelCompletion"}]_vars

\* C9 witness: the first request was superseded and never applied, the
\* response to the second one was applied, and the late response to the
\* first has just been dropped.
C9_Witness ==
    /\ last.op = "UpdateCompletion"
    /\ last.id = 1
    /\ ~last.changed
    /\ request_id = 2
    /\ status = "Done"
    /\ applied[1] = 0
    /\ applied[2] = 1
    /\ ResponseTo(1).items # ResponseTo(2).items

\* C10: with an empty input the active list is the list of entries, and in
\* Done it is the response's entries in the server's order, whatever the
\* filtered list holds.
C10_EmptyInputKeepsServerOrder ==
    input = << >> =>
        /\ ActiveItems(Self) = items
        /\ ActiveCount = Len(items)
        /\ status = "Done" =>
               /\ Labels(ActiveItems(Self)) = ResponseTo(request_id).items
               /\ ActiveCount = Len(ResponseTo(request_id).items)

\* C10 witness: the input is empty while a filtered list of another length
\* is left over from an earlier input.
C10_Witness ==
    /\ input = << >>
    /\ status = "Done"
    /\ Len(items) = 3
    /\ filtered_items # << >>
    /\ Len(filtered_items) < Len(items)

\* The labels of the entries of its that have score sc, in order.
LabelsWithScore(its, sc) ==
    LET HasScore(e) == e.score = sc IN Labels(SelectSeq(its, HasScore))

\* C11: with a non-empty input the filtered list is in descending order of
\* score, entries of equal score are in ascending order of their index
\* field, and they are in the order they have in the list of all entries.
C11_SortedByScoreTiesInServerOrder ==
    input # << >> =>
        /\ \A k \in 1..(Len(filtered_items) - 1) :
               /\ filtered_items[k].score >= filtered_items[k + 1].score
               /\ filtered_items[k].score = filtered_items[k + 1].score =>
                      filtered_items[k].index <= filtered_items[k + 1].index
        /\ \A k \in 1..Len(filtered_items) :
               LabelsWithScore(filtered_items, filtered_items[k].score)
                   = LabelsWithScore(FilterMap(items, input),
                                     filtered_items[k].score)

\* C11 witness: the best entry came last from the server and is first now,
\* behind it two entries of equal score keep their server order.
C11_Witness ==
    /\ last.op = "update_input"
    /\ input = <<"f", "o">>
    /\ Labels(items) = <<fooBar, fob, foo>>
    /\ Labels(filtered_items) = <<fob, foo, fooBar>>
    /\ filtered_items[1].score = filtered_items[2].score
    /\ filtered_items[2].score > filtered_items[3].score

\* The characters of q occur in c in order, whatever their case.
IsSubsequence(q, c) ==
    \E f \in [1..Len(q) -> 1..Len(c)] :
        /\ \A j \in 1..Len(q) : Lower(c[f[j]]) = Lower(q[j])
        /\ \A j \in 2..Len(q) : f[j - 1] < f[j]

\* How many entries of its have the label l.
CountLabel(its, l) == Cardinality({k \in 1..Len(its) : its[k].item = l})

\* C12: with a non-empty input the filtered list holds exactly the entries
\* whose label has the input's characters in order, case ignored, and every
\* kept entry has one position per input character, strictly increasing,
\* each at a character of the label that matches.
C12_FilterKeepsSubsequenceMatches ==
    input # << >> =>
        /\ \A l \in RankLabels :
               CountLabel(filtered_items, l)
                   = IF IsSubsequence(input, l) THEN CountLabel(items, l) ELSE 0
        /\ \A k \in 1..Len(filtered_items) :
               LET e == filtered_items[k]
               IN  /\ e.item \in RankLabels
                   /\ Len(e.indices) = Len(input)
                   /\ \A j \in 1..Len(input) :
                          /\ e.indices[j] \in 0..(Len(e.item) - 1)
                          /\ Lower(e.item[e.indices[j] + 1]) = Lower(input[j])
                          /\ j > 1 => e.indices[j - 1] < e.indices[j]

\* C12 witness: the input fo over foo, bar, fooBar kept foo and fooBar and
\* dropped bar.
C12_Witness ==
    /\ last.op = "update_input"
    /\ input = <<"f", "o">>
    /\ Labels(items) = <<foo, bar, fooBar>>
    /\ Labels(filtered_items) = <<foo, fooBar>>
    /\ filtered_items[2].indices = <<0, 1>>

\* C13: paint_raw moves the offset to the bottom-aligned position of the
\* selected row, capped at the end of the list, when the row's bottom edge
\* is below the viewport; to the row's top edge when that is above the
\* viewport; and leaves it otherwise. 50 rows of height 20 in a viewport of
\* 120 at offset 0 with row 10 selected give 100.
C13_ScrollToThreeCases ==
    [][/\ paint_raw_scroll_offset(0, 10, 20, 120, 50) = 100
       /\ last'.op = "paint_raw" =>
              scroll_offset' =
                  IF (state_index + 1) * line_height > scroll_offset + height
                  THEN Min((state_index + 1) * line_height - height,
                           state_items * line_height - height)
                  ELSE IF state_index * line_height < scroll_offset
                       THEN state_index * line_height
                       ELSE scroll_offset]_vars

\* C13 witness: paint_raw scrolled down to show a selected row that is not
\* the last one.
C13_Witness ==
    /\ last.op = "paint_raw"
    /\ state_index + 1 < state_items
    /\ scroll_offset > 0
    /\ scroll_offset = (state_index + 1) * line_height - height

\* C14: for an offset >= 0, a selected row inside the list and a row height
\* of at most the viewport height, the selected row is fully inside the
\* viewport after paint_raw, and the offset is unchanged when the row was
\* fully inside before.
C14_SelectedRowVisible ==
    [][(/\ last'.op = "paint_raw"
        /\ scroll_offset >= 0
        /\ state_index < state_items
        /\ line_height <= height)
       => /\ scroll_offset' <= state_index * line_height
          /\ (state_index + 1) * line_height <= scroll_offset' + height
          /\ (/\ scroll_offset <= state_index * line_height
              /\ (state_index + 1) * line_height <= scroll_offset + height)
             => scroll_offset' = scroll_offset]_vars

\* C14 witness: paint_raw scrolled up to the top edge of a selected row
\* that is lower than the viewport is high.
C14_Witness ==
    /\ last.op = "paint_raw"
    /\ 0 < state_index
    /\ state_index < state_items
    /\ line_height < height
    /\ scroll_offset = state_index * line_height
    /\ painted.lines # {}

\* The number of rows of the list the last paint drew from.
PaintedTotal == IF last.op = "paint_raw" THEN state_items ELSE len(Self)

\* C15: a paint draws the rows from floor(offset / row height) up to
\* ceil((offset + viewport height) / row height), cut to the rows of the
\* list: every row that is partly inside the viewport is drawn, and no row
\* outside the list is.
C15_VisibleRangeFloorCeil ==
    last.op \in {"paint_raw", "paint"} =>
        /\ painted.lines =
               { r \in 0..(PaintedTotal - 1) :
                     /\ r >= FloorAsUsize(painted.y0, line_height)
                     /\ r < CeilAsUsize(painted.y1, line_height) }
        /\ \A r \in 0..(PaintedTotal - 1) :
               (r * line_height < painted.y1
                    /\ (r + 1) * line_height > painted.y0)
               => r \in painted.lines
        /\ \A r \in painted.lines : r < PaintedTotal

\* C16: no reachable state is the state after a panic.
C16_NoFatalError == ~fatal

\* C17: update_input accepted in Done makes the input the new one, resets
\* the index to 0, keeps the entries, and leaves a filtered list that is
\* derived from the entries and the new input alone: the sorted matches for
\* a non-empty input, and for an empty input, which filters nothing, the
\* entries themselves or the empty list.
C17_UpdateInputRederives ==
    [][\A q \in Queries :
           (UpdateInput(q) /\ status = "Done") =>
               /\ input' = q
               /\ index' = 0
               /\ items' = items
               /\ status' = "Done"
               /\ IF q = << >>
                  THEN Labels(filtered_items') \in {Labels(items), << >>}
                  ELSE filtered_items' = SortByScore(FilterMap(items, q))]_vars

\* C18: every entry of the filtered list is an entry of the list of all
\* entries.
C18_FilteredSubsetOfAll ==
    \A k \in 1..Len(filtered_items) :
        \E j \in 1..Len(items) : items[j].item = filtered_items[k].item

\* C19 as stated: the status changes only from Inactive to Started, from
\* Started to Done, from Done to Inactive and from Started to Inactive.
C19_TransitionsAsListed ==
    [][status' # status =>
           <<status, status'>> \in {<<"Inactive", "Started">>,
                                    <<"Started", "Done">>,
                                    <<"Done", "Inactive">>,
                                    <<"Started", "Inactive">>}]_vars

\* C19 amended: the status changes only by the listed transitions and from
\* Done to Started, when a new request is started.
C19_TransitionsWithRestart ==
    [][status' # status =>
           \/ <<status, status'>> \in {<<"Inactive", "Started">>,
                                       <<"Started", "Done">>,
                                       <<"Done", "Inactive">>,
                                       <<"Started", "Inactive">>}
           \/ /\ <<status, status'>> = <<"Done", "Started">>
              /\ last'.op = "start"]_vars

\* C19 witness: a second request was started from Done, with the entries of
\* the first response still held.
C19_Witness ==
    /\ last.op = "start"
    /\ last.from = "Done"
    /\ status = "Started"
    /\ request_id = 2
    /\ items # << >>

\* C20: a delivered cancellation cancels the session when it carries the
\* current request id and the status is Started, and changes nothing
\* otherwise.
C20_CancellationOnlyForPendingRequest ==
    [][last'.op = "CancelCompletion" =>
           IF last'.id = request_id /\ status = "Started"
           THEN status' = "Inactive" /\ input' = << >> /\ index' = 0
           ELSE UNCHANGED data]_vars

\* C20 witness: the cancellation of the current request arrived after its
\* response was accepted and moved on, and was discarded.
C20_Witness ==
    /\ last.op = "CancelCompletion"
    /\ last.from = "Done"
    /\ last.id = request_id
    /\ ~last.changed
    /\ status = "Done"
    /\ index > 0

\* C21: when a response is accepted, entry number i (from 0) of the
\* response becomes entry number i of items, with index i, score 0 and no
\* matched positions.
C21_WrappedWithOriginIndex ==
    [][(last'.op = "UpdateCompletion"
          /\ status = "Started" /\ last'.id = request_id)
       => /\ Len(items') = Len(ResponseTo(request_id).items)
          /\ \A k \in 1..Len(items') :
                 /\ items'[k].item = ResponseTo(request_id).items[k]
                 /\ items'[k].index = k - 1
                 /\ items'[k].score = 0
                 /\ items'[k].indices = << >>]_vars

\* C22: for a selected row inside the list and a row height of at most the
\* viewport height, the offset paint_raw computes is a fixed point of
\* paint_raw with the same selected row, row height, viewport height and
\* number of rows: a second frame leaves the cached scroll_offset as the
\* first frame wrote it, whatever the offset before the first frame was.
C22_ScrollToIdempotent ==
    [][(/\ last'.op = "paint_raw"
        /\ state_index < state_items
        /\ 0 < line_height
        /\ line_height <= height)
       => /\ paint_raw_scroll_offset(scroll_offset', state_index, line_height,
                                     height, state_items) = scroll_offset'
          /\ (last.op = "paint_raw" => scroll_offset' = scroll_offset)
          /\ \A so \in (0 - MaxOffset)..MaxOffset :
                 LET once == paint_raw_scroll_offset(so, state_index,
                                 line_height, height, state_items)
                 IN  paint_raw_scroll_offset(once, state_index, line_height,
                                             height, state_items) = once]_vars

\* C22 witness: a frame of paint_raw found the offset that an earlier frame
\* had scrolled down to, for the last row of the list, and left it.
C22_Witness ==
    /\ last.op = "paint_raw"
    /\ ~last.changed
    /\ state_index + 1 = state_items
    /\ line_height <= height
    /\ scroll_offset > 0
    /\ scroll_offset = (state_index + 1) * line_height - height
    /\ painted.y0 = scroll_offset

====
